---- MODULE Spec2Model ----
(***************************************************************************)
(* Model of vtkpytools' boundary-layer post-processing:                    *)
(*   common.py       getGeometricSeries                                    *)
(*   bar2vtk/data.py sampleDataBlockProfile, calcBoundaryLayerStats        *)
(*                                                                         *)
(* Units.  Coordinates and wall distances are integers counting 1e-8, so   *)
(* that nudge_increment (1E-8) is 1.  Velocities are integers counting     *)
(* 1e-9, so that the degeneracy threshold (1E-8) is 10.                    *)
(* Floating point results are exact extended rationals: a finite fraction, *)
(* +inf, -inf or NaN, combined by the IEEE-754 rules numpy follows with    *)
(* its default error state (warn, do not raise).  Rounding is not modelled.*)
(***************************************************************************)
EXTENDS Integers, Sequences, FiniteSets, TLC

(* ---------------------------------------------------------------- bounds *)
MaxWallPoints == 2
MaxVal == 9
MaxMin == 3
MaxGrowth == 3

(* ----------------------------------------------------- program constants *)
MaxAttempts == 8
nudge_increment == 1
Tolerance == 10
velocity_component == 0
Uref == 1
nu == 1

(* ------------------------------------------------ floating point values *)
Abs(x) == IF x < 0 THEN -x ELSE x

Sign(x) == IF x < 0 THEN -1 ELSE IF x > 0 THEN 1 ELSE 0

RECURSIVE GCD(_, _)
GCD(a, b) == IF b = 0 THEN a ELSE GCD(b, a % b)

Fin(n, d) ==
    LET g == GCD(Abs(n), Abs(d))
    IN  [k |-> "fin", n |-> (Sign(d) * n) \div g, d |-> Abs(d) \div g]

NaN == [k |-> "nan", n |-> 0, d |-> 1]

Inf(s) == [k |-> "inf", n |-> s, d |-> 1]

FromInt(v) == Fin(v, 1)

IsNaN(x) == x.k = "nan"

IsFinite(x) == x.k = "fin"

FNeg(x) == IF x.k = "nan" THEN NaN ELSE [x EXCEPT !.n = -x.n]

FAdd(x, y) ==
    IF x.k = "nan" \/ y.k = "nan" THEN NaN
    ELSE IF x.k = "inf" /\ y.k = "inf" THEN (IF x.n = y.n THEN x ELSE NaN)
    ELSE IF x.k = "inf" THEN x
    ELSE IF y.k = "inf" THEN y
    ELSE Fin(x.n * y.d + y.n * x.d, x.d * y.d)

FSub(x, y) == FAdd(x, FNeg(y))

FMul(x, y) ==
    IF x.k = "nan" \/ y.k = "nan" THEN NaN
    ELSE IF x.k = "inf" \/ y.k = "inf"
         THEN (IF x.n = 0 \/ y.n = 0 THEN NaN ELSE Inf(Sign(x.n) * Sign(y.n)))
    ELSE Fin(x.n * y.n, x.d * y.d)

FDiv(x, y) ==
    IF x.k = "nan" \/ y.k = "nan" THEN NaN
    ELSE IF x.k = "inf" /\ y.k = "inf" THEN NaN
    ELSE IF x.k = "inf" THEN Inf(x.n * (IF y.n < 0 THEN -1 ELSE 1))
    ELSE IF y.k = "inf" THEN FromInt(0)
    ELSE IF y.n = 0 THEN (IF x.n = 0 THEN NaN ELSE Inf(Sign(x.n)))
    ELSE Fin(x.n * y.d, x.d * y.n)

RECURSIVE FSum(_)
FSum(s) == IF Len(s) = 0 THEN FromInt(0) ELSE FAdd(FSum(SubSeq(s, 1, Len(s) - 1)), s[Len(s)])

(* np.trapz(y, x): (diff(x) * (y[1:] + y[:-1]) / 2.0).sum() *)
trapz(y, x) ==
    FSum([k \in 1..(Len(x) - 1) |->
            FDiv(FMul(FromInt(x[k + 1] - x[k]), FAdd(y[k + 1], y[k])), FromInt(2))])

(* ------------------------------------------------- getGeometricSeries *)
RECURSIVE Pow(_, _)
Pow(b, e) == IF e = 0 THEN 1 ELSE b * Pow(b, e - 1)

RECURSIVE LeastExp(_, _, _, _)
(* least n >= from with den * g^n >= num *)
LeastExp(num, den, g, from) ==
    IF den * Pow(g, from) >= num THEN from ELSE LeastExp(num, den, g, from + 1)

RECURSIVE GreatestExp(_, _, _, _)
(* greatest m >= from with num * g^m <= den *)
GreatestExp(num, den, g, from) ==
    IF num * Pow(g, from + 1) > den THEN from ELSE GreatestExp(num, den, g, from + 1)

(* ceil(log(num/den) / log(g)) for num, den > 0 and g > 1 *)
CeilLog(num, den, g) ==
    IF num >= den THEN LeastExp(num, den, g, 0) ELSE -GreatestExp(num, den, g, 0)

(* np.ceil(np.log(maxval/minval)/np.log(growthrate)) for minval # 0: numpy's
   log gives nan below zero and -inf at zero, and its division never raises. *)
NPoints(maxval, minval, growthrate) ==
    LET lognum == IF maxval * minval < 0 THEN "nan"
                  ELSE IF maxval = 0 THEN "-inf"
                  ELSE IF Abs(maxval) = Abs(minval) THEN "zero"
                  ELSE IF Abs(maxval) > Abs(minval) THEN "pos" ELSE "neg"
    IN  IF lognum = "nan" \/ growthrate < 0 THEN NaN
        ELSE IF growthrate = 0
             THEN (IF lognum = "-inf" THEN NaN ELSE FromInt(0))
        ELSE IF growthrate = 1
             THEN (IF lognum = "zero" THEN NaN
                   ELSE IF lognum = "pos" THEN Inf(1) ELSE Inf(-1))
        ELSE IF lognum = "-inf" THEN Inf(-1)
        ELSE FromInt(CeilLog(Abs(maxval), Abs(minval), growthrate))

Raise(e) == [kind |-> "raise", exc |-> e, value |-> <<>>]

Return(v) == [kind |-> "return", exc |-> "", value |-> v]

(* A series is held as [root |-> m, powers |-> p]: entry k is the positive
   m-th root of p[k] (0 for p[k] = 0), which keeps np.geomspace's irrational
   entries exact: with num >= 2 points, m = num - 1 and
   p[k] = start^(num-k) * stop^(k-1) for k = 1..num. *)
geomspace(start, stop, num, float_num_ok) ==
    IF start = 0 \/ stop = 0 THEN Raise("ValueError")
    ELSE IF ~float_num_ok THEN Raise("TypeError")
    ELSE IF num.k = "nan" THEN Raise("ValueError")
    ELSE IF num.k = "inf" THEN Raise("OverflowError")
    ELSE IF num.n < 0 THEN Raise("ValueError")
    ELSE IF num.n = 0 THEN Return([root |-> 1, powers |-> <<>>])
    ELSE IF num.n = 1 THEN Return([root |-> 1, powers |-> <<start>>])
    ELSE Return([root |-> num.n - 1,
                 powers |-> [k \in 1..num.n |->
                               Pow(start, num.n - k) * Pow(stop, k - 1)]])

(* float_num_ok: numpy before 1.18 converts the float npoints with int();
   later versions refuse a float num with a TypeError. *)
getGeometricSeries(maxval, minval, growthrate, include_zero, float_num_ok) ==
    IF minval = 0 THEN Raise("ZeroDivisionError")
    ELSE LET npoints == NPoints(maxval, minval, growthrate)
             geomseries == geomspace(minval, maxval, npoints, float_num_ok)
         IN  IF geomseries.kind = "raise" THEN geomseries
             ELSE IF include_zero
                  THEN Return([geomseries.value EXCEPT
                                 !.powers = <<0>> \o geomseries.value.powers])
             ELSE geomseries

(* ------------------------------------------------------------ inputs *)
(* Wall point j (0-based) and its unit normal: distinct points with
   distinct normals. *)
WallPoint(j) == <<4 * j, j, 0>>

WallNormal(j) ==
    IF j % 3 = 0 THEN <<0, 1, 0>> ELSE IF j % 3 = 1 THEN <<1, 0, 0>> ELSE <<0, 0, 1>>

(* The distance schedules handed to the profile functions (never empty). *)
Schedules == {<<0>>, <<0, 2>>, <<0, 1, 3>>}

(* What the grid can interpolate at one sample point: exactly zero, below
   the threshold in the selected component but not zero, and above the
   threshold in another component only. *)
VelocityVectors == {<<0, 0, 0>>, <<5, 0, 0>>, <<0, 20, 0>>}

Profiles(n) == [1..n -> VelocityVectors]

(* a local name not yet bound is <<>>, one bound to v is <<v>> *)
Unbound == <<>>

NoLine == [points |-> <<>>, Velocity |-> <<>>, WallDistance |-> <<>>]

(* ---------------------------------------------------- shared geometry *)
(* sample points that leave out the wall point *)
SamplePointsNoPoint(dists, normal, point) ==
    [k \in 1..Len(dists) |-> [c \in 1..3 |-> dists[k] * normal[c]]]

(* line_walldists[:, None] * tile(normal) + point *)
SamplePoints(dists, normal, point) ==
    [k \in 1..Len(dists) |-> [c \in 1..3 |-> dists[k] * normal[c] + point[c]]]

(* a nudge added to every coordinate: sample_points += nudge *)
NudgePointsAllAxes(points, nudge) ==
    [k \in 1..Len(points) |-> [c \in 1..3 |-> points[k][c] + nudge]]

(* sample_points[:,0] += nudge *)
NudgePoints(points, nudge) ==
    [k \in 1..Len(points) |-> [points[k] EXCEPT ![1] = @ + nudge]]

RECURSIVE MaxAbs(_)
MaxAbs(vel) ==
    IF Len(vel) = 0 THEN 0
    ELSE LET r == MaxAbs(SubSeq(vel, 1, Len(vel) - 1))
             v == vel[Len(vel)]
             m == IF Abs(v[1]) >= Abs(v[2])
                  THEN (IF Abs(v[1]) >= Abs(v[3]) THEN Abs(v[1]) ELSE Abs(v[3]))
                  ELSE (IF Abs(v[2]) >= Abs(v[3]) THEN Abs(v[2]) ELSE Abs(v[3]))
         IN  IF m > r THEN m ELSE r

(* a degeneracy test that looks at the last sample point only *)
DegenerateLastPoint(vel) == MaxAbs(<<vel[Len(vel)]>>) < Tolerance

(* np.abs(sample_line['Velocity']).max() < 1E-8 *)
Degenerate(vel) == MaxAbs(vel) < Tolerance

(* a budget test that lets one more attempt through *)
NudgeBudgetExhaustedLate(a) == a = MaxAttempts + 1

(* elif attempt == 8 *)
NudgeBudgetExhausted(a) == a = MaxAttempts

(* the new nudge_size of attempt a (already incremented), from the last one *)
NextNudgeSize(a, last) ==
    IF a % 2 = 0 THEN (a \div 2) * nudge_increment - last
    ELSE -((a + 1) \div 2) * nudge_increment - last

(* a warning that names the wall point by its 1-based position *)
WarnNudgeFailedOneBased(w, idx, size) ==
    w \cup {[index |-> idx + 1, nudge_size |-> size]}

(* warnings.warn(f'Nudging failed for index {i}! The last nudge size was ...') *)
WarnNudgeFailed(w, idx, size) == w \cup {[index |-> idx, nudge_size |-> size]}

(* an edge velocity read at the wall end of the line *)
EdgeVelocityFirst(vel) == vel[1][velocity_component + 1]

(* sample_line['Velocity'][-1,velocity_component] *)
EdgeVelocity(vel) == vel[Len(vel)][velocity_component + 1]

(* Ue, U, the two integrands and the three statistics of one profile *)
BoundaryLayerStats(vel, dists) ==
    LET Ue == FromInt(EdgeVelocity(vel))
        U == [k \in 1..Len(vel) |-> FromInt(vel[k][velocity_component + 1])]
        integrand_displace == [k \in 1..Len(vel) |-> FSub(FromInt(1), FDiv(U[k], Ue))]
        integrand_mom ==
            [k \in 1..Len(vel) |-> FMul(integrand_displace[k], FDiv(U[k], Ue))]
        dd == trapz(integrand_displace, dists)
        dm == trapz(integrand_mom, dists)
    IN  [delta_displace |-> dd,
         delta_mom |-> dm,
         Re_theta |-> FDiv(FMul(dm, FromInt(Uref)), FromInt(nu))]

(* np.zeros(wall.points.shape[0]) *)
Zeros(n) == [k \in 1..n |-> FromInt(0)]

(* ------------------------------------------------------------- state *)
VARIABLES
    pc,              \* position: entry, loop, sample, integrate, done, raised, returned
    float_num_ok,    \* whether the installed numpy accepts a float num
    wall_points,     \* wall.points
    wall_arrays,     \* the wall's named point arrays
    line_walldists,  \* the distance schedule
    call,            \* the function called and its arguments
    ret,             \* what the call returned
    exc,             \* exception that ended the call ("" for none)
    i,               \* the for loop's index
    sample_points, sample_line, sampled, attempt, nudge_size, orig_nudge_size,
    delta_mom, Re_theta, delta_displace,
    stdout,          \* lines printed for the current wall point
    warned,          \* warnings emitted
    nsamples,        \* grid samplings of the current wall point
    edge,            \* Ue of each wall point integrated so far
    writes           \* number of writes into each slot of the local arrays

locals == <<i, sample_points, sample_line, sampled, attempt, nudge_size,
            orig_nudge_size, delta_mom, Re_theta, delta_displace>>

ghosts == <<stdout, warned, nsamples, edge, writes>>

world == <<float_num_ok, wall_points, line_walldists>>

vars == <<pc, world, wall_arrays, call, ret, exc, locals, ghosts>>

NPts == Len(wall_points)

HasNormals == "Normals" \in DOMAIN wall_arrays

Init ==
    /\ pc = "entry"
    /\ float_num_ok \in BOOLEAN
    /\ \E n \in 0..MaxWallPoints :
         /\ wall_points = [j \in 1..n |-> WallPoint(j - 1)]
         /\ \/ wall_arrays = [a \in {"Normals"} |-> [j \in 1..n |-> WallNormal(j - 1)]]
            \/ wall_arrays = [a \in {} |-> <<>>]
    /\ line_walldists \in Schedules
    /\ call = [fn |-> "none"]
    /\ ret = <<>>
    /\ exc = ""
    /\ i = 0
    /\ sample_points = <<>>
    /\ sample_line = NoLine
    /\ sampled = FALSE
    /\ attempt = 0
    /\ nudge_size = 0
    /\ orig_nudge_size = Unbound
    /\ delta_mom = <<>>
    /\ Re_theta = <<>>
    /\ delta_displace = <<>>
    /\ stdout = <<>>
    /\ warned = {}
    /\ nsamples = 0
    /\ edge = <<>>
    /\ writes = <<>>

(* ------------------------------------------ getGeometricSeries (call) *)
CallGetGeometricSeries ==
    /\ pc = "entry"
    /\ \E maxval \in 0..MaxVal, minval \in -1..MaxMin, growthrate \in 0..MaxGrowth,
          include_zero \in BOOLEAN :
         LET r == getGeometricSeries(maxval, minval, growthrate, include_zero,
                                     float_num_ok)
         IN  /\ call' = [fn |-> "getGeometricSeries", maxval |-> maxval,
                         minval |-> minval, growthrate |-> growthrate,
                         include_zero |-> include_zero]
             /\ ret' = r.value
             /\ exc' = r.exc
             /\ pc' = IF r.kind = "raise" THEN "raised" ELSE "returned"
    /\ UNCHANGED <<world, wall_arrays, locals, ghosts>>

(* -------------------------------------------- sampleDataBlockProfile *)
(* An optional argument is {} for None and {v} for the value v. *)
Truthy(opt) == opt # {} /\ opt # {0}

TheValue(opt) == CHOOSE v \in opt : TRUE

(* vel1 and vel2 are the grid's answers to the two possible samplings, cut
   the points (wall indices) vtkCutter finds when a cutter is given. *)
sampleDataBlockProfile(pointid, cutterObj, vel1, cut, vel2) ==
    IF ~HasNormals THEN Raise("RuntimeError")
    ELSE
      LET byPoint ==
            IF Truthy(pointid)
            THEN LET p == TheValue(pointid)
                 IN  {[points |-> SamplePoints(line_walldists,
                                               wall_arrays["Normals"][p + 1],
                                               wall_points[p + 1]),
                       Velocity |-> vel1,
                       WallDistance |-> line_walldists]}
            ELSE {}
      IN  IF cutterObj
          THEN IF Len(cut) # 1 THEN Raise("RuntimeError")
               ELSE Return([points |-> SamplePoints(line_walldists,
                                                    wall_arrays["Normals"][cut[1]],
                                                    wall_points[cut[1]]),
                            Velocity |-> vel2,
                            WallDistance |-> line_walldists])
          ELSE IF byPoint = {} THEN Raise("UnboundLocalError")
          ELSE Return(TheValue(byPoint))

CutterOutputs == {<<>>} \cup {<<a>> : a \in 1..NPts} \cup {<<a, b>> : a, b \in 1..NPts}

CallSampleDataBlockProfile ==
    /\ pc = "entry"
    /\ \E pointid \in {{}} \cup {{p} : p \in 0..(NPts - 1)}, cutterObj \in BOOLEAN,
          vel1 \in Profiles(Len(line_walldists)),
          cut \in CutterOutputs :
         LET r == sampleDataBlockProfile(pointid, cutterObj, vel1, cut, vel1)
         IN  /\ (~cutterObj => cut = <<>>)
             /\ call' = [fn |-> "sampleDataBlockProfile", pointid |-> pointid,
                         cutterObj |-> cutterObj]
             /\ ret' = r.value
             /\ exc' = r.exc
             /\ pc' = IF r.kind = "raise" THEN "raised" ELSE "returned"
    /\ UNCHANGED <<world, wall_arrays, locals, ghosts>>

(* -------------------------------------------- calcBoundaryLayerStats *)
(* lines 153-159: the three local arrays *)
CalcBegin ==
    /\ pc = "entry"
    /\ call' = [fn |-> "calcBoundaryLayerStats"]
    /\ delta_mom' = Zeros(NPts)
    /\ Re_theta' = Zeros(NPts)
    /\ delta_displace' = Zeros(NPts)
    /\ writes' = [k \in 1..NPts |-> 0]
    /\ i' = 0
    /\ pc' = "loop"
    /\ UNCHANGED <<world, wall_arrays, ret, exc, sample_points, sample_line, sampled,
                   attempt, nudge_size, orig_nudge_size, stdout, warned, nsamples, edge>>

(* a loop head that sets nudge_size once, before the loop, and so carries
   it over from the wall point before *)
PointSetupKeepsNudge ==
    /\ pc = "loop"
    /\ i < NPts
    /\ IF ~HasNormals
       THEN /\ pc' = "raised"
            /\ exc' = "KeyError"
            /\ UNCHANGED <<sample_points, sampled, attempt, stdout, nsamples>>
       ELSE /\ sample_points' = SamplePoints(line_walldists,
                                             wall_arrays["Normals"][i + 1],
                                             wall_points[i + 1])
            /\ sampled' = FALSE
            /\ attempt' = 0
            /\ stdout' = <<>>
            /\ nsamples' = 0
            /\ pc' = "sample"
            /\ exc' = exc
    /\ UNCHANGED <<world, wall_arrays, call, ret, i, sample_line, orig_nudge_size,
                   nudge_size, delta_mom, Re_theta, delta_displace, warned, edge,
                   writes>>

(* lines 160-170: the next wall point, its sample points and the reset of
   the retry state; wall['Normals'] raises KeyError when the field is absent *)
PointSetup ==
    /\ pc = "loop"
    /\ i < NPts
    /\ IF ~HasNormals
       THEN /\ pc' = "raised"
            /\ exc' = "KeyError"
            /\ UNCHANGED <<sample_points, sampled, attempt, nudge_size, stdout, nsamples>>
       ELSE /\ sample_points' = SamplePoints(line_walldists,
                                             wall_arrays["Normals"][i + 1],
                                             wall_points[i + 1])
            /\ sampled' = FALSE
            /\ attempt' = 0
            /\ nudge_size' = 0
            /\ stdout' = <<>>
            /\ nsamples' = 0
            /\ pc' = "sample"
            /\ exc' = exc
    /\ UNCHANGED <<world, wall_arrays, call, ret, i, sample_line, orig_nudge_size,
                   delta_mom, Re_theta, delta_displace, warned, edge, writes>>

(* lines 171-197: one pass of the while loop; vel is the grid's answer *)
Sample ==
    /\ pc = "sample"
    /\ \E vel \in Profiles(Len(line_walldists)) :
         /\ sample_line' = [points |-> sample_points, Velocity |-> vel,
                            WallDistance |-> <<>>]
         /\ nsamples' = nsamples + 1
         /\ IF Degenerate(vel)
            THEN IF attempt # 0 /\ NudgeBudgetExhausted(attempt)
                 THEN /\ warned' = WarnNudgeFailed(warned, i, nudge_size)
                      /\ pc' = "integrate"
                      /\ UNCHANGED <<sample_points, sampled, attempt, nudge_size,
                                     orig_nudge_size, stdout>>
                 ELSE /\ stdout' = IF attempt = 0
                                   THEN Append(stdout, [msg |-> "will attempt nudging",
                                                        index |-> i])
                                   ELSE stdout
                      /\ orig_nudge_size' = <<nudge_size>>
                      /\ attempt' = attempt + 1
                      /\ nudge_size' = NextNudgeSize(attempt + 1, nudge_size)
                      /\ sample_points' =
                           NudgePoints(sample_points,
                                       NextNudgeSize(attempt + 1, nudge_size))
                      /\ pc' = "sample"
                      /\ UNCHANGED <<sampled, warned>>
            ELSE /\ sampled' = TRUE
                 /\ stdout' = IF attempt > 0
                              THEN Append(stdout,
                                          [msg |-> "successful", index |-> i,
                                           attempts |-> attempt,
                                           nudge |-> nudge_size + orig_nudge_size[1]])
                              ELSE stdout
                 /\ pc' = "integrate"
                 /\ UNCHANGED <<sample_points, attempt, nudge_size, orig_nudge_size,
                                warned>>
    /\ UNCHANGED <<world, wall_arrays, call, ret, exc, i, delta_mom, Re_theta,
                   delta_displace, edge, writes>>

(* lines 199-206: integrate the last profile into slot i *)
Integrate ==
    /\ pc = "integrate"
    /\ LET st == BoundaryLayerStats(sample_line.Velocity, line_walldists)
       IN  /\ delta_displace' = [delta_displace EXCEPT ![i + 1] = st.delta_displace]
           /\ delta_mom' = [delta_mom EXCEPT ![i + 1] = st.delta_mom]
           /\ Re_theta' = [Re_theta EXCEPT ![i + 1] = st.Re_theta]
    /\ writes' = [writes EXCEPT ![i + 1] = @ + 1]
    /\ edge' = Append(edge, sample_line.Velocity[Len(sample_line.Velocity)]
                                                [velocity_component + 1])
    /\ i' = i + 1
    /\ pc' = "loop"
    /\ UNCHANGED <<world, wall_arrays, call, ret, exc, sample_points, sample_line,
                   sampled, attempt, nudge_size, orig_nudge_size, stdout, warned,
                   nsamples>>

(* lines 216-220: the three fields go onto the wall *)
WriteFields ==
    /\ pc = "loop"
    /\ i >= NPts
    /\ wall_arrays' = ("delta_displace" :> delta_displace) @@
                      ("delta_mom" :> delta_mom) @@
                      ("Re_theta" :> Re_theta) @@ wall_arrays
    /\ pc' = "returned"
    /\ UNCHANGED <<world, call, ret, exc, locals, ghosts>>

Next ==
    \/ CallGetGeometricSeries
    \/ CallSampleDataBlockProfile
    \/ CalcBegin
    \/ PointSetup
    \/ Sample
    \/ Integrate
    \/ WriteFields

Spec == Init /\ [][Next]_vars
(* ===================================================== properties ==== *)
InCalc == call.fn = "calcBoundaryLayerStats"

(* the wall point whose retry state and last sample the locals hold *)
Cur == IF pc \in {"sample", "integrate"} THEN i ELSE i - 1

(* the sample line of wall point j before any nudge *)
BaseLine(j) ==
    SamplePoints(line_walldists, wall_arrays["Normals"][j + 1], wall_points[j + 1])

(* how far the sample line sits from its original position on the first axis *)
CumulativeOffset == sample_points[1][1] - BaseLine(Cur)[1][1]

(* every component of every sample is below the threshold *)
AllNearZero(vel) ==
    \A k \in 1..Len(vel) : \A c \in 1..3 : Abs(vel[k][c]) < Tolerance

WarnedAt(j) == \E w \in warned : w.index = j

FieldsWritten ==
    {"delta_displace", "delta_mom", "Re_theta"} \subseteq DOMAIN wall_arrays

C1_Step ==
    InCalc =>
      /\ attempt' <= MaxAttempts
      /\ nsamples' <= MaxAttempts + 1
      /\ pc = "sample" =>
           /\ nsamples = attempt
           /\ nsamples' = nsamples + 1
           /\ pc' \in {"sample", "integrate"}
           /\ (pc' = "sample" => attempt' = attempt + 1)
           /\ (pc' = "integrate" => attempt' = attempt)

(* C1: for every wall point and every answer of the grid, the retry loop
   makes at most 8 nudge attempts and at most 9 samplings, and it ends: each
   pass of the loop adds one to the samplings of the wall point, which never
   exceed 9, and a pass that stays in the loop adds one to attempt. *)
C1_NudgeBounded == [][C1_Step]_vars

C1_Witness ==
    InCalc /\ pc = "integrate" /\ ~sampled /\ attempt = 8 /\ nsamples = 9

(* C2 (as claimed): while the profile stays degenerate, the sample line sits
   ceil(attempt/2) * nudge_increment away from its original position after
   each attempt (the magnitudes of +e, -e, +2e, -2e, ...). *)
C2_OffsetMagnitude ==
    (InCalc /\ pc \in {"sample", "integrate"} /\ attempt >= 1) =>
      Abs(CumulativeOffset) = ((attempt + 1) \div 2) * nudge_increment

(* What the code does instead: -e, +e, -3e, +3e, -6e, +6e, -10e, +10e. *)
CodeOffset(a) ==
    LET m == (a + 1) \div 2
        t == (m * (m + 1)) \div 2
    IN  IF a % 2 = 0 THEN t * nudge_increment ELSE -t * nudge_increment

OffsetIsTriangular ==
    (InCalc /\ pc \in {"sample", "integrate"}) =>
      CumulativeOffset = (IF attempt = 0 THEN 0 ELSE CodeOffset(attempt))

(* the guards of PointSetup or WriteFields, of Sample and of Integrate *)
PassCanStep ==
    \/ pc = "loop" /\ (i < NPts \/ i >= NPts)
    \/ pc = "sample" /\ Profiles(Len(line_walldists)) # {}
    \/ pc = "integrate"

(* C3: a wall point still degenerate after 8 attempts gets a warning naming
   its index, raises nothing, has its last (degenerate) profile integrated
   into its slot, and the pass goes on over the remaining points to the end,
   where the three fields are written. *)
C3_ExhaustedContinues ==
    InCalc =>
      /\ (pc = "integrate" /\ ~sampled) =>
           /\ attempt = MaxAttempts
           /\ WarnedAt(i)
           /\ AllNearZero(sample_line.Velocity)
      /\ \A w \in warned :
           /\ w.index <= Cur
           /\ pc # "raised" /\ exc = ""
           /\ (w.index < i => writes[w.index + 1] = 1)
           /\ (pc = "returned" \/ PassCanStep)
           /\ (pc = "returned" => i = NPts /\ FieldsWritten)
      /\ (pc = "loop" /\ i >= 1 /\ WarnedAt(i - 1)) =>
           /\ AllNearZero(sample_line.Velocity)
           /\ delta_displace[i] =
                BoundaryLayerStats(sample_line.Velocity, line_walldists).delta_displace
           /\ delta_mom[i] =
                BoundaryLayerStats(sample_line.Velocity, line_walldists).delta_mom

C3_Witness ==
    /\ InCalc /\ pc = "returned" /\ NPts = 2 /\ FieldsWritten
    /\ WarnedAt(0) /\ ~WarnedAt(1)
    /\ writes = <<1, 1>>

(* C4 (as claimed): after the return, every wall point whose nudge budget was
   exhausted holds NaN in the derived fields. *)
C4_ExhaustedIsNaN ==
    (InCalc /\ pc = "returned") =>
      \A w \in warned :
        /\ IsNaN(wall_arrays["delta_displace"][w.index + 1])
        /\ IsNaN(wall_arrays["delta_mom"][w.index + 1])
        /\ IsNaN(wall_arrays["Re_theta"][w.index + 1])

(* C4 (amended): after the return, every wall point whose nudge budget was
   exhausted and whose last profile has an edge velocity of exactly 0 holds
   NaN in the three derived fields, when the schedule has at least two
   distances. *)
C4_ExhaustedZeroEdgeIsNaN ==
    (InCalc /\ pc = "returned" /\ Len(line_walldists) >= 2) =>
      \A w \in warned :
        edge[w.index + 1] = 0 =>
          /\ IsNaN(wall_arrays["delta_displace"][w.index + 1])
          /\ IsNaN(wall_arrays["delta_mom"][w.index + 1])
          /\ IsNaN(wall_arrays["Re_theta"][w.index + 1])

C4_Witness ==
    /\ InCalc /\ pc = "returned" /\ Len(line_walldists) = 3
    /\ \E w \in warned :
         /\ edge[w.index + 1] = 0
         /\ IsNaN(wall_arrays["delta_mom"][w.index + 1])
    /\ \E w \in warned :
         /\ edge[w.index + 1] # 0
         /\ IsFinite(wall_arrays["delta_mom"][w.index + 1])

(* C5: the retry loop stops at the first non-degenerate sample: every nudge
   follows a degenerate sample, the attempt count at success is the number of
   samplings before the valid one, a valid first sample means no nudge, no
   offset and no message, and success after k attempts is printed as k. *)
C5_StopsAtFirstValid ==
    InCalc =>
      /\ (pc = "sample" /\ attempt >= 1) => AllNearZero(sample_line.Velocity)
      /\ sampled =>
           /\ pc \in {"integrate", "loop", "returned"}
           /\ ~AllNearZero(sample_line.Velocity)
           /\ nsamples = attempt + 1
           /\ ~WarnedAt(Cur)
           /\ (attempt = 0 =>
                 /\ nudge_size = 0
                 /\ sample_points = BaseLine(Cur)
                 /\ stdout = <<>>)
           /\ (attempt >= 1 =>
                 /\ stdout[Len(stdout)].msg = "successful"
                 /\ stdout[Len(stdout)].index = Cur
                 /\ stdout[Len(stdout)].attempts = attempt)

C5_Witness ==
    /\ InCalc /\ pc = "integrate" /\ sampled /\ attempt = 1 /\ nsamples = 2
    /\ stdout[Len(stdout)].attempts = 1
GS == call.fn = "getGeometricSeries"

ValidRange == call.growthrate > 1 /\ call.maxval > call.minval /\ call.minval > 0

(* the entries of the returned series after the prepended zero *)
NonZeroPart == IF call.include_zero THEN Tail(ret.powers) ELSE ret.powers

(* C6 (as claimed): for valid (maxval, minval, growthrate) the returned
   series is strictly increasing, its first non-zero entry is >= minval, its
   last entry >= maxval, consecutive non-zero entries have the ratio
   growthrate, there are ceil(log(maxval/minval)/log(growthrate)) + 1
   non-zero points, and include_zero prepends exactly one 0. *)
C6_SeriesContract ==
    (GS /\ pc = "returned" /\ ValidRange) =>
      LET m == ret.root
          p == ret.powers
          nz == NonZeroPart
      IN  /\ \A k \in 1..(Len(p) - 1) : p[k] < p[k + 1]
          /\ Len(nz) >= 1
          /\ nz[1] >= Pow(call.minval, m)
          /\ p[Len(p)] >= Pow(call.maxval, m)
          /\ \A k \in 1..(Len(nz) - 1) : nz[k + 1] = Pow(call.growthrate, m) * nz[k]
          /\ Len(nz) = CeilLog(call.maxval, call.minval, call.growthrate) + 1
          /\ (call.include_zero => p[1] = 0)
          /\ \A k \in 1..Len(nz) : nz[k] > 0

(* C7 (as claimed): getGeometricSeries fails, returning no sequence, whenever
   maxval <= minval, minval <= 0 or growthrate <= 1. *)
C7_InvalidRangeRaises ==
    (GS /\ (call.maxval <= call.minval \/ call.minval <= 0 \/ call.growthrate <= 1)) =>
      pc = "raised"

SP == call.fn = "sampleDataBlockProfile"

(* C8 (as claimed): for every valid wall point index i, 0 included, given as
   pointid with no cutter, sampleDataBlockProfile returns the line of N points
   wall.points[i] + line_walldists[k] * Normals[i], in schedule order, each
   paired with its wall distance. *)
C8_LineOfEveryPoint ==
    (SP /\ call.pointid # {} /\ ~call.cutterObj /\ HasNormals) =>
      /\ pc = "returned"
      /\ Len(ret.points) = Len(line_walldists)
      /\ \A k \in 1..Len(line_walldists) : \A c \in 1..3 :
           ret.points[k][c] =
             wall_points[TheValue(call.pointid) + 1][c] +
             line_walldists[k] * wall_arrays["Normals"][TheValue(call.pointid) + 1][c]
      /\ ret.WallDistance = line_walldists

(* the line of wall point j shifted by o along the first axis, from the
   wall's own data *)
IsOwnLine(points, j) ==
    LET o == points[1][1] - (wall_points[j + 1][1] +
                             line_walldists[1] * wall_arrays["Normals"][j + 1][1])
    IN  /\ Len(points) = Len(line_walldists)
        /\ \A k \in 1..Len(points) : \A c \in 1..3 :
             points[k][c] = wall_points[j + 1][c] +
                            line_walldists[k] * wall_arrays["Normals"][j + 1][c] +
                            (IF c = 1 THEN o ELSE 0)

C9_Step ==
    /\ pc = "integrate" =>
         LET st == BoundaryLayerStats(sample_line.Velocity, line_walldists)
         IN  /\ writes[i + 1] = 0
             /\ IsOwnLine(sample_line.points, i)
             /\ Len(sample_line.Velocity) = Len(line_walldists)
             /\ delta_displace'[i + 1] = st.delta_displace
             /\ delta_mom'[i + 1] = st.delta_mom
             /\ Re_theta'[i + 1] = st.Re_theta
             /\ \A k \in 1..NPts : k # i + 1 =>
                  /\ delta_displace'[k] = delta_displace[k]
                  /\ delta_mom'[k] = delta_mom[k]
                  /\ Re_theta'[k] = Re_theta[k]
    /\ pc \notin {"integrate", "entry"} =>
         UNCHANGED <<delta_displace, delta_mom, Re_theta, writes>>
    /\ (InCalc /\ pc' = "returned") =>
         /\ FieldsWritten'
         /\ wall_arrays'["delta_displace"] = delta_displace
         /\ wall_arrays'["delta_mom"] = delta_mom
         /\ wall_arrays'["Re_theta"] = Re_theta
         /\ Len(delta_displace) = NPts /\ Len(delta_mom) = NPts /\ Len(Re_theta) = NPts
         /\ \A k \in 1..NPts : writes[k] = 1

(* C9: each of the three arrays written onto the wall has one slot per wall
   point; slot i is written exactly once, with the statistics of the last
   profile sampled on wall point i's own line (its point, its normal, its
   offset), and no other step changes a slot. *)
C9_SlotsAligned == [][C9_Step]_vars

C9_Witness ==
    /\ InCalc /\ pc = "returned" /\ NPts = 2 /\ FieldsWritten
    /\ Len(wall_arrays["delta_mom"]) = 2
    /\ writes = <<1, 1>>
    /\ wall_arrays["delta_displace"][1] # wall_arrays["delta_displace"][2]

(* C10 (as claimed): without a Normals field calcBoundaryLayerStats fails
   before any per-point work, for every wall, and the wall never gets the
   three derived fields. *)
C10_MissingNormalsFails ==
    (InCalc /\ ~HasNormals) =>
      /\ pc \in {"loop", "raised"}
      /\ nsamples = 0
      /\ ~FieldsWritten
(* the offset and the last nudge after a attempts, from the attempt count
   alone *)
OffsetAfter(a) == IF a = 0 THEN 0 ELSE CodeOffset(a)

NudgeAfter(a) == IF a = 0 THEN 0 ELSE OffsetAfter(a) - OffsetAfter(a - 1)

(* the sample line of wall point j after a attempts, from the wall's own
   point and normal, the schedule and the attempt count *)
OwnLineAfter(j, a) ==
    [k \in 1..Len(line_walldists) |->
       [c \in 1..3 |->
          wall_points[j + 1][c] +
          line_walldists[k] * wall_arrays["Normals"][j + 1][c] +
          (IF c = 1 THEN OffsetAfter(a) ELSE 0)]]

(* C11: what is computed for wall point i depends only on that point's
   position and normal, the schedule and the grid's answers on its own lines:
   whatever happened on earlier points, its sample line, nudge size and
   attempt count are those of a fresh start followed by its own attempts, the
   line sampled last is its own, and its slots hold the statistics of the
   profile sampled last on that line. *)
C11_PointsIndependent ==
    (InCalc /\ HasNormals) =>
      /\ pc \in {"sample", "integrate"} =>
           /\ sample_points = OwnLineAfter(i, attempt)
           /\ nudge_size = NudgeAfter(attempt)
      /\ pc = "sample" =>
           /\ ~sampled
           /\ nsamples = attempt
           /\ attempt = 0 => stdout = <<>>
      /\ (pc = "integrate" \/ (pc \in {"loop", "returned"} /\ i >= 1)) =>
           /\ sample_line.points = OwnLineAfter(Cur, attempt)
           /\ (sampled /\ attempt >= 1) =>
                stdout[Len(stdout)].nudge =
                  (IF attempt % 2 = 0 THEN 1 ELSE -1) *
                  ((attempt + 1) \div 2) * nudge_increment
      /\ (pc \in {"loop", "returned"} /\ i >= 1) =>
           LET st == BoundaryLayerStats(sample_line.Velocity, line_walldists)
           IN  /\ delta_displace[i] = st.delta_displace
               /\ delta_mom[i] = st.delta_mom
               /\ Re_theta[i] = st.Re_theta

(* the second wall point succeeds after one attempt although the first one
   used up its budget *)
C11_Witness ==
    /\ InCalc /\ pc = "integrate" /\ i = 1 /\ WarnedAt(0)
    /\ sampled /\ attempt = 1
    /\ sample_points = OwnLineAfter(1, 1)

C12_Step ==
    InCalc =>
      /\ UNCHANGED <<line_walldists, wall_points>>
      /\ HasNormals => (HasNormals' /\ wall_arrays'["Normals"] = wall_arrays["Normals"])
      /\ (pc = "sample" /\ pc' = "sample") =>
           /\ attempt' = attempt + 1
           /\ Len(sample_points') = Len(line_walldists)
           /\ \A k \in 1..Len(line_walldists) :
                /\ sample_points'[k][1] = sample_points[k][1] + nudge_size'
                /\ sample_points'[k][2] = sample_points[k][2]
                /\ sample_points'[k][3] = sample_points[k][3]
      /\ (pc = "sample" /\ pc' = "integrate") => sample_points' = sample_points

(* C12: a nudge attempt moves every point of the sample line by the same
   amount along the first axis and leaves its second and third coordinates
   alone; no step of the pass changes the distance schedule, the wall points
   or the wall normals. *)
C12_NudgeFirstAxisOnly == [][C12_Step]_vars

(* all eight attempts made on a three point line off the first axis *)
C12_Witness ==
    /\ InCalc /\ pc = "integrate" /\ attempt = 8 /\ ~sampled
    /\ Len(line_walldists) = 3
    /\ wall_arrays["Normals"][i + 1] = <<0, 1, 0>>
    /\ \A k \in 1..3 :
         /\ sample_points[k][2] = wall_points[i + 1][2] + line_walldists[k]
         /\ sample_points[k][3] = wall_points[i + 1][3]
         /\ sample_points[k][1] = wall_points[i + 1][1] + 10 * nudge_increment
====
